---- MODULE Spec2Model ----
(***************************************************************************)
(* Model of src/validation/schema.js: the validator of a subgraph GraphQL  *)
(* schema.  The parsed document is a sequence of definitions; every rule   *)
(* of the validator is an operator from AST nodes to an outcome, which is  *)
(* either the immutable List the rule returns or the exception it throws.  *)
(***************************************************************************)
EXTENDS Integers, Sequences, FiniteSets, TLC

VARIABLES pc, doc, sel, names, fn, out

vars == <<pc, doc, sel, names, fn, out>>

(***************************************************************************)
(* Bounds of the model.                                                    *)
(***************************************************************************)
\* deepest nesting of List/NonNull wrappers around a named type
MaxWrap == 3
\* most fields of the entity type whose fields vary
MaxFields == 2
\* most elements of the `types` list of an @import directive
MaxImports == 1
\* most local names, and most imported names, handed to the collision pass
MaxNames == 2

(***************************************************************************)
(* JavaScript values.                                                      *)
(***************************************************************************)
\* `undefined` where an AST node is expected (the result of Array.find)
Undefined == [kind |-> "undefined"]
\* `undefined` where a string is expected (node.value of a list or object)
NoValue == "<undefined>"

\* Array.prototype.find / some, by predicate
Has(s, P(_)) == \E i \in 1..Len(s) : P(s[i])
First(s, P(_)) ==
  s[CHOOSE i \in 1..Len(s) : P(s[i]) /\ \A j \in 1..(i - 1) : ~P(s[j])]
Find(s, P(_)) == IF Has(s, P) THEN First(s, P) ELSE Undefined
Includes(s, x) == \E i \in 1..Len(s) : s[i] = x

\* what a call produces: the value it returns, or the exception it throws
Ok(v) == [exn |-> "none", val |-> v]
Throw(e) == [exn |-> e, val |-> <<>>]

\* List.of(...a, ...b) and errors.concat(b): a is evaluated first, and the
\* first exception ends the evaluation
Concat(a, b) ==
  IF a.exn # "none" THEN a
  ELSE IF b.exn # "none" THEN b
  ELSE Ok(a.val \o b.val)

RECURSIVE Flatten(_)
Flatten(outs) ==
  IF outs = <<>> THEN Ok(<<>>) ELSE Concat(Head(outs), Flatten(Tail(outs)))

(***************************************************************************)
(* The AST.  Type expressions, values, arguments, directives, fields and   *)
(* definitions as graphql/language builds them; `name` stands for          *)
(* node.name.value.  A source document is the tree without locations.      *)
(***************************************************************************)
Named(n) == [kind |-> "NamedType", name |-> n]
ListOf(t) == [kind |-> "ListType", type |-> t]
NonNull(t) == [kind |-> "NonNullType", type |-> t]

StrV(s) == [kind |-> "StringValue", value |-> s, values |-> <<>>, fields |-> <<>>]
IntV(s) == [kind |-> "IntValue", value |-> s, values |-> <<>>, fields |-> <<>>]
ListV(vs) == [kind |-> "ListValue", value |-> NoValue, values |-> vs, fields |-> <<>>]
Obj(fs) == [kind |-> "ObjectValue", value |-> NoValue, values |-> <<>>, fields |-> fs]
OField(n, v) == [name |-> n, value |-> v]

Arg(n, v) == [name |-> n, value |-> v]
Dir(n, args) == [name |-> n, arguments |-> args]
Fld(n, t, args, dirs) == [name |-> n, type |-> t, arguments |-> args, directives |-> dirs]
Def(k, n, dirs, fs) == [kind |-> k, name |-> n, directives |-> dirs, fields |-> fs]

\* node.loc: the place of a node in the document, by definition, field,
\* directive, argument and object field (0: not inside one)
Loc(d, f, k, a, o) ==
  [def |-> d, field |-> f, directive |-> k, argument |-> a, objectField |-> o,
   part |-> "node"]
\* node.name.loc
NameLoc(loc) == [loc EXCEPT !.part = "name"]

\* graphql.parse: the document's definitions, a location on every node the
\* validator reads one from
parseValue(v, d, f, k, a) ==
  [v EXCEPT !.fields =
     [o \in 1..Len(v.fields) |->
        [name |-> v.fields[o].name, value |-> v.fields[o].value,
         loc |-> Loc(d, f, k, a, o)]]]
parseDirective(dir, d, f, k) ==
  [name |-> dir.name, loc |-> Loc(d, f, k, 0, 0),
   arguments |->
     [a \in 1..Len(dir.arguments) |->
        [name |-> dir.arguments[a].name,
         value |-> parseValue(dir.arguments[a].value, d, f, k, a)]]]
parseField(fld, d, f) ==
  [name |-> fld.name, type |-> fld.type, arguments |-> fld.arguments,
   loc |-> Loc(d, f, 0, 0, 0),
   directives |->
     [k \in 1..Len(fld.directives) |-> parseDirective(fld.directives[k], d, f, k)]]
parseDefinition(def, d) ==
  [kind |-> def.kind, name |-> def.name, loc |-> Loc(d, 0, 0, 0, 0),
   directives |->
     [k \in 1..Len(def.directives) |-> parseDirective(def.directives[k], d, 0, k)],
   fields |-> [f \in 1..Len(def.fields) |-> parseField(def.fields[f], d, f)]]
parseSchema(source) ==
  IF source.syntaxError THEN Throw("Invalid GraphQL schema")
  ELSE Ok([d \in 1..Len(source.definitions) |->
             parseDefinition(source.definitions[d], d)])
loadSchema(readable, source) ==
  IF readable THEN Ok(source) ELSE Throw("Failed to load GraphQL schema")

\* a diagnostic; the message is the sequence of the pieces of its text
Diag(loc, entity, message) == [loc |-> loc, entity |-> entity, message |-> message]

(***************************************************************************)
(* Constants of the validator.                                             *)
(***************************************************************************)
BUILTIN_SCALAR_TYPES ==
  <<"Boolean", "Int", "BigDecimal", "String", "BigInt", "Bytes", "ID">>

\* each pattern as the set of the strings it matches
Widths8to24 == {"8", "16", "24"}
WidthsBig ==
  {"40", "48", "56", "64", "72", "80", "88", "96", "104", "112", "120", "128",
   "136", "144", "152", "160", "168", "176", "184", "192", "200", "208", "216",
   "224", "232", "240", "248", "256"}
TYPE_SUGGESTIONS ==
  << [pattern |-> {"Address"}, suggestion |-> "Bytes"],
     [pattern |-> {"address"}, suggestion |-> "Bytes"],
     [pattern |-> {"bytes"}, suggestion |-> "Bytes"],
     [pattern |-> {"string"}, suggestion |-> "String"],
     [pattern |-> {"bool"}, suggestion |-> "Boolean"],
     [pattern |-> {"boolean"}, suggestion |-> "Boolean"],
     [pattern |-> {"Bool"}, suggestion |-> "Boolean"],
     [pattern |-> {"float"}, suggestion |-> "BigDecimal"],
     [pattern |-> {"Float"}, suggestion |-> "BigDecimal"],
     [pattern |-> {"int"}, suggestion |-> "Int"],
     [pattern |-> {"uint"}, suggestion |-> "BigInt"],
     [pattern |-> {p \o w : p \in {"u", "uint"}, w \in Widths8to24},
      suggestion |-> "Int"],
     [pattern |-> {p \o w : p \in {"i", "int"}, w \in Widths8to24 \cup {"32"}},
      suggestion |-> "Int"],
     [pattern |-> {p \o "32" : p \in {"u", "uint"}}, suggestion |-> "BigInt"],
     [pattern |-> {p \o w : p \in {"u", "uint", "i", "int"}, w \in WidthsBig},
      suggestion |-> "BigInt"] >>

RESERVED_TYPE == "_Schema_"

typeSuggestion(typeName) ==
  LET matching == SelectSeq(TYPE_SUGGESTIONS, LAMBDA e : typeName \in e.pattern)
  IN IF matching = <<>> THEN NoValue ELSE matching[1].suggestion

(***************************************************************************)
(* Rules of an entity type.                                                *)
(***************************************************************************)
validateEntityDirective(def) ==
  IF Has(def.directives, LAMBDA directive : directive.name = "entity")
  THEN Ok(<<>>)
  ELSE Ok(<<Diag(def.loc, def.name, <<"Defined without @entity directive">>)>>)

validateEntityID(def) ==
  LET idField == Find(def.fields, LAMBDA field : field.name = "id")
  IN IF idField = Undefined
     THEN Ok(<<Diag(def.loc, def.name, <<"Missing field: id: ID!">>)>>)
     ELSE IF /\ idField.type.kind = "NonNullType"
             /\ idField.type.type.kind = "NamedType"
             /\ idField.type.type.name = "ID"
          THEN Ok(<<>>)
          ELSE Ok(<<Diag(idField.loc, def.name,
                         <<"Field 'id': Entity IDs must be of type ID!">>)>>)

\* the text of both list messages reads field.type.type.name.value, which
\* only a NamedType node has
ListMessage(field, suffix) ==
  <<"Field '", field.name, "':\nField has type ",
    "[" \o field.type.type.name \o "]" \o suffix,
    " but\nmust have type ",
    "[" \o field.type.type.name \o "!]" \o suffix,
    "\n\nReason: Lists with null elements are not supported.">>

validateListFieldType(def, field) ==
  IF /\ field.type.kind = "NonNullType"
     /\ field.type.kind = "ListType"
     /\ field.type.type.kind # "NonNullType"
  THEN IF field.type.type.kind # "NamedType" THEN Throw("TypeError")
       ELSE Ok(<<Diag(field.loc, def.name, ListMessage(field, "!"))>>)
  ELSE IF field.type.kind = "ListType" /\ field.type.type.kind # "NonNullType"
       THEN IF field.type.type.kind # "NamedType" THEN Throw("TypeError")
            ELSE Ok(<<Diag(field.loc, def.name, ListMessage(field, ""))>>)
       ELSE Ok(<<>>)

RECURSIVE innerTypeFromList(_), innerTypeFromNonNull(_)
innerTypeFromList(listType) ==
  IF listType.type.kind = "NonNullType"
  THEN innerTypeFromNonNull(listType.type)
  ELSE listType.type
innerTypeFromNonNull(nonNullType) ==
  IF nonNullType.type.kind = "ListType"
  THEN innerTypeFromList(nonNullType.type)
  ELSE nonNullType.type

unwrapType(type) ==
  IF type.kind = "NonNullType" THEN innerTypeFromNonNull(type)
  ELSE IF type.kind = "ListType" THEN innerTypeFromList(type)
  ELSE type

gatherLocalTypes(defs) ==
  LET local == SelectSeq(defs, LAMBDA def :
                 \/ def.kind = "ObjectTypeDefinition"
                 \/ def.kind = "EnumTypeDefinition"
                 \/ def.kind = "InterfaceTypeDefinition")
  IN [i \in 1..Len(local) |-> local[i].name]

\* an @import directive that has an argument named `types`
ImportWithTypes(directive) ==
  /\ directive.name = "import"
  /\ Has(directive.arguments, LAMBDA argument : argument.name = "types")

\* the name one element of a `types` list makes visible, or undefined
importedTypeName(type) ==
  IF type.kind = "StringValue" THEN type.value
  ELSE IF /\ type.kind = "ObjectValue"
          /\ Has(type.fields, LAMBDA field :
                   field.name = "as" /\ field.value.kind = "StringValue")
       THEN First(type.fields, LAMBDA field : field.name = "as").value.value
       ELSE NoValue

\* the names of one directive's list; arg is undefined, and arg.value
\* throws, when no argument is both named `types` and a list
importedTypeNames(imp) ==
  LET arg == Find(imp.arguments, LAMBDA argument :
                    argument.name = "types" /\ argument.value.kind = "ListValue")
  IN IF arg = Undefined THEN Throw("TypeError")
     ELSE Ok(SelectSeq([i \in 1..Len(arg.value.values) |->
                          importedTypeName(arg.value.values[i])],
                       LAMBDA type : type # NoValue /\ type # ""))

gatherImportedTypes(defs) ==
  LET schemaDefs == SelectSeq(defs, LAMBDA def :
                      /\ def.kind = "ObjectTypeDefinition"
                      /\ def.name = RESERVED_TYPE
                      /\ Has(def.directives, ImportWithTypes))
      ofDef(def) ==
        LET imports == SelectSeq(def.directives, ImportWithTypes)
        IN Flatten([k \in 1..Len(imports) |-> importedTypeNames(imports[k])])
  IN Flatten([d \in 1..Len(schemaDefs) |-> ofDef(schemaDefs[d])])

entityTypeByName(defs, name) ==
  LET entities ==
        SelectSeq(
          SelectSeq(defs, LAMBDA def :
            \/ def.kind = "InterfaceTypeDefinition"
            \/ def.kind = "ObjectTypeDefinition"),
          LAMBDA def : Has(def.directives, LAMBDA directive : directive.name = "entity"))
  IN Find(entities, LAMBDA def : def.name = name)

\* unwrapType(...).name.value: only a NamedType node has a name
fieldTargetEntityName(field) ==
  IF unwrapType(field.type).kind # "NamedType" THEN Throw("TypeError")
  ELSE Ok(unwrapType(field.type).name)

fieldTargetEntity(defs, field) ==
  IF fieldTargetEntityName(field).exn # "none" THEN fieldTargetEntityName(field)
  ELSE Ok(entityTypeByName(defs, fieldTargetEntityName(field).val))

validateInnerFieldType(defs, def, field) ==
  LET innerType == unwrapType(field.type)
      typeName == innerType.name
      suggestion == typeSuggestion(typeName)
      imported == gatherImportedTypes(defs)
      availableTypes == BUILTIN_SCALAR_TYPES \o gatherLocalTypes(defs) \o imported.val
  IN IF innerType.kind # "NamedType" THEN Throw("TypeError")
     ELSE IF imported.exn # "none" THEN imported
     ELSE IF Includes(availableTypes, typeName) THEN Ok(<<>>)
     ELSE Ok(<<Diag(field.loc, def.name,
                    <<"Field '", field.name, "': ", "Unknown type '", typeName, "'.">>
                    \o (IF suggestion # NoValue
                        THEN <<" Did you mean '", suggestion, "'?">>
                        ELSE <<>>))>>)

validateEntityFieldType(defs, def, field) ==
  Concat(validateListFieldType(def, field), validateInnerFieldType(defs, def, field))

validateEntityFieldArguments(defs, def, field) ==
  IF Len(field.arguments) > 0
  THEN Ok(<<Diag(field.loc, def.name,
                 <<"Field '", field.name, "': ", "Field arguments are not supported.">>)>>)
  ELSE Ok(<<>>)

entityFieldExists(entityDef, name) ==
  Find(entityDef.fields, LAMBDA field : field.name = name) # Undefined

validateDerivedFromDirective(defs, def, field, directive) ==
  IF Len(directive.arguments) # 1 \/ directive.arguments[1].name # "field"
  THEN Ok(<<Diag(directive.loc, def.name,
                 <<"Field '", field.name, "': ",
                   "@derivedFrom directive must have a 'field' argument">>)>>)
  ELSE IF directive.arguments[1].value.kind # "StringValue"
  THEN Ok(<<Diag(directive.loc, def.name,
                 <<"Field '", field.name, "': ",
                   "Value of the @derivedFrom 'field' argument must be a string">>)>>)
  ELSE
    LET target == fieldTargetEntity(defs, field)
        targetEntity == target.val
        fieldName == directive.arguments[1].value.value
        derivedFromField == Find(targetEntity.fields, LAMBDA f : f.name = fieldName)
        backrefTypeName == unwrapType(derivedFromField.type)
        backRefEntity == entityTypeByName(defs, backrefTypeName.name)
    IN IF target.exn # "none" THEN target
       ELSE IF targetEntity = Undefined THEN Ok(<<>>)
       ELSE IF derivedFromField = Undefined
       THEN Ok(<<Diag(directive.loc, def.name,
                      <<"Field '", field.name, "': ",
                        "@derivedFrom field '", fieldName,
                        "' does not exist on type '", targetEntity.name, "'">>)>>)
       ELSE IF backrefTypeName.kind # "NamedType" THEN Throw("TypeError")
       ELSE IF backRefEntity = Undefined \/ backRefEntity.name # def.name
       THEN Ok(<<Diag(directive.loc, def.name,
                      <<"Field '", field.name, "': ",
                        "@derivedFrom field '", fieldName,
                        "' on type '", targetEntity.name, "' must have the type ",
                        "'" \o def.name \o "', '" \o def.name \o "!' or '["
                          \o def.name \o "!]!'">>)>>)
       ELSE Ok(<<>>)

validateEntityFieldDirective(defs, def, field, directive) ==
  IF directive.name = "derivedFrom"
  THEN validateDerivedFromDirective(defs, def, field, directive)
  ELSE Ok(<<>>)

validateEntityFieldDirectives(defs, def, field) ==
  Flatten([k \in 1..Len(field.directives) |->
             validateEntityFieldDirective(defs, def, field, field.directives[k])])

validateEntityFields(defs, def) ==
  Flatten([f \in 1..Len(def.fields) |->
             Concat(validateEntityFieldType(defs, def, def.fields[f]),
                    Concat(validateEntityFieldArguments(defs, def, def.fields[f]),
                           validateEntityFieldDirectives(defs, def, def.fields[f])))])

validateNoImportDirective(def) ==
  IF Has(def.directives, LAMBDA directive : directive.name = "import")
  THEN Ok(<<Diag(NameLoc(def.loc), def.name,
                 <<"@import directive only allowed on '", RESERVED_TYPE, "' type">>)>>)
  ELSE Ok(<<>>)

(***************************************************************************)
(* Rules of the reserved type _Schema_ and of its @import directives.      *)
(***************************************************************************)
ImportShapeMessage == <<"Import must be one of \"Name\" or { name: \"Name\", as: \"Alias\" }">>

\* one step of the reduce over the fields of an object element
importObjectFieldErrors(def, directive, field) ==
  IF ~(field.name \in {"name", "as"})
  THEN <<Diag(NameLoc(directive.loc), def.name,
              <<"@import field '", field.name, "' invalid, may only be one of: [name, as]">>)>>
  ELSE IF field.value.kind # "StringValue"
  THEN <<Diag(NameLoc(directive.loc), def.name,
              <<"@import fields [name, as] must be strings">>)>>
  ELSE <<>>

importDirectiveTypeValidators_StringValue(def, directive, type) == Ok(<<>>)

importDirectiveTypeValidators_ObjectValue(def, directive, type) ==
  IF Len(type.fields) # 2
  THEN Ok(<<Diag(NameLoc(directive.loc), def.name, ImportShapeMessage)>>)
  ELSE Flatten([o \in 1..Len(type.fields) |->
                  Ok(importObjectFieldErrors(def, directive, type.fields[o]))])

validateImportDirectiveType(def, directive, type) ==
  IF type.kind = "StringValue"
  THEN importDirectiveTypeValidators_StringValue(def, directive, type)
  ELSE IF type.kind = "ObjectValue"
  THEN importDirectiveTypeValidators_ObjectValue(def, directive, type)
  ELSE Ok(<<Diag(NameLoc(directive.loc), def.name, ImportShapeMessage)>>)

validateImportDirectiveArgumentTypes(def, directive, argument) ==
  IF argument.value.kind # "ListValue"
  THEN Ok(<<Diag(NameLoc(directive.loc), def.name,
                 <<"@import argument 'types' must be an list">>)>>)
  ELSE Flatten([i \in 1..Len(argument.value.values) |->
                  validateImportDirectiveType(def, directive, argument.value.values[i])])

\* one step of the reduce over the fields of the `from` object
importFromFieldErrors(def, field) ==
  IF ~(field.name \in {"name", "id"})
  THEN <<Diag(NameLoc(field.loc), def.name,
              <<"@import argument 'from' must be one of { name: \"Name\" } or { id: \"ID\" }">>)>>
  ELSE IF field.value.kind # "StringValue"
  THEN <<Diag(NameLoc(field.loc), def.name,
              <<"@import argument 'from' must be one of { name: \"Name\" } or { id: \"ID\" }",
                " with string values">>)>>
  ELSE <<>>

validateImportDirectiveArgumentFrom(def, directive, argument) ==
  IF argument.value.kind # "ObjectValue"
  THEN Ok(<<Diag(NameLoc(directive.loc), def.name,
                 <<"@import argument 'from' must be an object">>)>>)
  ELSE IF Len(argument.value.fields) # 1
  THEN Ok(<<Diag(NameLoc(directive.loc), def.name,
                 <<"@import argument 'from' must have an 'id' or 'name' field">>)>>)
  ELSE Flatten([o \in 1..Len(argument.value.fields) |->
                  Ok(importFromFieldErrors(def, argument.value.fields[o]))])

validateImportDirectiveTypes(def, directive) ==
  LET types == Find(directive.arguments, LAMBDA argument : argument.name = "types")
  IN IF types # Undefined
     THEN validateImportDirectiveArgumentTypes(def, directive, types)
     ELSE Ok(<<Diag(NameLoc(directive.loc), def.name,
                    <<"@import argument 'types' must be specified">>)>>)

validateImportDirectiveFrom(def, directive) ==
  LET from == Find(directive.arguments, LAMBDA argument : argument.name = "from")
  IN IF from # Undefined
     THEN validateImportDirectiveArgumentFrom(def, directive, from)
     ELSE Ok(<<Diag(NameLoc(directive.loc), def.name,
                    <<"@import argument 'from' must be specified">>)>>)

\* the error branch reads `def`, which is neither a parameter of the
\* function nor a binding of the module: evaluating it throws
validateImportDirectiveName(directive) ==
  IF directive.name # "import" THEN Throw("ReferenceError") ELSE Ok(<<>>)

validateImportDirective(def, directive) ==
  Concat(validateImportDirectiveName(directive),
         Concat(validateImportDirectiveTypes(def, directive),
                validateImportDirectiveFrom(def, directive)))

validateSubgraphSchemaDirectives(def) ==
  Flatten([k \in 1..Len(def.directives) |->
             validateImportDirective(def, def.directives[k])])

validateTypeHasNoFields(def) ==
  IF Len(def.fields) # 0
  THEN Ok(<<Diag(NameLoc(def.loc), def.name,
                 <<def.name, " type is not allowed any fields by convention">>)>>)
  ELSE Ok(<<>>)

validateAtLeastOneExtensionField(def) == Ok(<<>>)

(***************************************************************************)
(* Dispatch on the kind of a definition, and the whole schema.             *)
(***************************************************************************)
typeDefinitionValidators_ObjectTypeDefinition(defs, def) ==
  IF def.name = RESERVED_TYPE
  THEN Concat(validateSubgraphSchemaDirectives(def), validateTypeHasNoFields(def))
  ELSE Concat(validateEntityDirective(def),
              Concat(validateEntityID(def),
                     Concat(validateEntityFields(defs, def),
                            validateNoImportDirective(def))))

validateTypeDefinition(defs, def) ==
  IF def.kind = "ObjectTypeDefinition"
  THEN typeDefinitionValidators_ObjectTypeDefinition(defs, def)
  ELSE IF def.kind = "ObjectTypeExtension"
  THEN validateAtLeastOneExtensionField(def)
  ELSE Ok(<<>>)

validateTypeDefinitions(defs) ==
  Flatten([d \in 1..Len(defs) |-> validateTypeDefinition(defs, defs[d])])

\* the reduce of the collision pass from element i on, with the two sets
\* and the errors so far
RECURSIVE collisionsFrom(_, _, _, _, _)
collisionsFrom(types, i, seen, conflicting, errors) ==
  IF i > Len(types) THEN errors
  ELSE IF types[i] \in seen /\ ~(types[i] \in conflicting)
  THEN collisionsFrom(types, i + 1, seen, conflicting \cup {types[i]},
         Append(errors,
                Diag([start |-> 1, end |-> 1], types[i],
                     <<"Type '", types[i], "' is defined more than once">>)))
  ELSE collisionsFrom(types, i + 1, seen \cup {types[i]}, conflicting, errors)

\* the pass without its set of names already flagged: every repeat of a
\* name is reported
RECURSIVE repeatsFrom(_, _, _, _)
repeatsFrom(types, i, seen, errors) ==
  IF i > Len(types) THEN errors
  ELSE IF types[i] \in seen
  THEN repeatsFrom(types, i + 1, seen,
         Append(errors,
                Diag([start |-> 1, end |-> 1], types[i],
                     <<"Type '", types[i], "' is defined more than once">>)))
  ELSE repeatsFrom(types, i + 1, seen \cup {types[i]}, errors)
validateNamingCollisionsInTypes_EveryRepeat(types) ==
  Ok(repeatsFrom(types, 1, {}, <<>>))

validateNamingCollisionsInTypes(types) ==
  Ok(collisionsFrom(types, 1, {}, {}, <<>>))

validateNamingCollisions(local, imported) ==
  validateNamingCollisionsInTypes(local \o imported)

\* validateSchema with the collision pass ahead of the definitions
validateSchema_CollisionsFirst(readable, source) ==
  LET loaded == loadSchema(readable, source)
      schema == parseSchema(loaded.val)
      imported == gatherImportedTypes(schema.val)
  IN IF loaded.exn # "none" THEN loaded
     ELSE IF schema.exn # "none" THEN schema
     ELSE Concat(IF imported.exn # "none" THEN imported
                 ELSE validateNamingCollisions(gatherLocalTypes(schema.val),
                                               imported.val),
                 validateTypeDefinitions(schema.val))

\* validateSchema(filename): the file is readable or not, and holds the
\* source document
validateSchema(readable, source) ==
  LET loaded == loadSchema(readable, source)
      schema == parseSchema(loaded.val)
      imported == gatherImportedTypes(schema.val)
  IN IF loaded.exn # "none" THEN loaded
     ELSE IF schema.exn # "none" THEN schema
     ELSE Concat(validateTypeDefinitions(schema.val),
                 IF imported.exn # "none" THEN imported
                 ELSE validateNamingCollisions(gatherLocalTypes(schema.val),
                                               imported.val))

(***************************************************************************)
(* Source documents the validator is run on.                               *)
(***************************************************************************)
SeqsUpTo(S, n) == UNION {[1..k -> S] : k \in 0..n}

Source(defs) == [syntaxError |-> FALSE, definitions |-> defs]
Unparsable == [syntaxError |-> TRUE, definitions |-> <<>>]

RECURSIVE TypesUpTo(_, _)
TypesUpTo(typeNames, n) ==
  IF n = 0 THEN {Named(t) : t \in typeNames}
  ELSE LET inner == TypesUpTo(typeNames, n - 1)
       IN inner \cup {ListOf(t) : t \in inner}
                \cup {NonNull(t) : t \in {u \in inner : u.kind # "NonNullType"}}

Entity == Dir("entity", <<>>)
IdField == Fld("id", NonNull(Named("ID")), <<>>, <<>>)
DerivedFrom(v) == Dir("derivedFrom", <<Arg("field", v)>>)
FromName == Arg("from", Obj(<<OField("name", StrV("org/subgraph"))>>))

\* elements of a `types` list
ImportElements ==
  { StrV("Imp"), StrV(""), IntV("1"),
    Obj(<<OField("name", StrV("X")), OField("as", StrV("Alias"))>>),
    Obj(<<OField("name", StrV("X")), OField("name", StrV("Y"))>>),
    Obj(<<OField("name", StrV("X")), OField("as", IntV("1"))>>),
    Obj(<<OField("name", StrV("X")), OField("alias", StrV("Alias"))>>),
    Obj(<<OField("name", StrV("X"))>>) }
TypesArguments ==
  {<<>>, <<Arg("types", StrV("Imp"))>>}
    \cup {<<Arg("types", ListV(es))>> : es \in SeqsUpTo(ImportElements, MaxImports)}
FromArguments ==
  { <<>>, <<FromName>>, <<Arg("from", StrV("org/subgraph"))>>,
    <<Arg("from", Obj(<<OField("id", IntV("1"))>>))>>,
    <<Arg("from", Obj(<<OField("foo", StrV("x"))>>))>>,
    <<Arg("from", Obj(<<OField("name", StrV("n")), OField("id", StrV("i"))>>))>> }
ImportDirectives == {Dir("import", t \o f) : t \in TypesArguments, f \in FromArguments}
SchemaDirectiveSeqs ==
  {<<>>, <<Entity>>} \cup {<<i>> : i \in ImportDirectives}
SchemaDefs ==
  {Def("ObjectTypeDefinition", RESERVED_TYPE, ds, fs) :
     ds \in SchemaDirectiveSeqs, fs \in {<<>>, <<IdField>>}}

\* an entity whose fields use the names an import can make visible
ImportUser ==
  Def("ObjectTypeDefinition", "A", <<Entity>>,
      <<IdField, Fld("i", Named("Imp"), <<>>, <<>>),
        Fld("x", NonNull(Named("Alias")), <<>>, <<>>)>>)
ImportDocuments ==
  {Source(<<s>> \o rest) : s \in SchemaDefs, rest \in {<<>>, <<ImportUser>>}}

\* fields of the entity type A whose fields vary
FieldPool ==
  { IdField,
    Fld("id", NonNull(Named("String")), <<>>, <<>>),
    Fld("bs", NonNull(ListOf(NonNull(Named("B")))), <<>>, <<DerivedFrom(StrV("a"))>>),
    Fld("bz", NonNull(ListOf(Named("B"))), <<>>, <<DerivedFrom(StrV("zz"))>>),
    Fld("n", ListOf(Named("String")), <<>>, <<>>),
    Fld("x", Named("address"), <<"first">>, <<>>),
    Fld("s", Named("String"), <<>>, <<DerivedFrom(StrV("a"))>>),
    Fld("d", Named("B"), <<>>,
        <<Dir("derivedFrom", <<>>), Dir("unique", <<>>), DerivedFrom(IntV("1"))>>) }
ValidImport ==
  Dir("import", <<Arg("types", ListV(<<StrV("Imp")>>)), FromName>>)
SubjectDefs ==
  {Def("ObjectTypeDefinition", "A", ds, fs) :
     ds \in {<<Entity>>, <<>>, <<Entity, ValidImport>>},
     fs \in SeqsUpTo(FieldPool, MaxFields)}
TargetWithBackref ==
  Def("ObjectTypeDefinition", "B", <<Entity>>,
      <<IdField, Fld("a", NonNull(Named("A")), <<>>, <<>>)>>)
OtherDefSeqs ==
  { <<TargetWithBackref>>,
    <<Def("InterfaceTypeDefinition", "B", <<Entity>>,
          <<IdField, Fld("a", ListOf(Named("String")), <<>>, <<>>)>>)>>,
    <<Def("ObjectTypeDefinition", "B", <<>>, <<Fld("a", Named("A"), <<>>, <<>>)>>)>>,
    <<TargetWithBackref, Def("EnumTypeDefinition", "A", <<>>, <<>>)>>,
    <<TargetWithBackref, Def("EnumTypeDefinition", "A", <<>>, <<>>),
      Def("InterfaceTypeDefinition", "A", <<>>, <<>>)>>,
    <<Def("ObjectTypeExtension", "A", <<Entity>>, <<Fld("n", ListOf(Named("Zed")), <<>>, <<>>)>>)>> }
SchemaHeads ==
  { <<>>,
    <<Def("ObjectTypeDefinition", RESERVED_TYPE, <<ValidImport>>, <<>>)>>,
    <<Def("ObjectTypeDefinition", RESERVED_TYPE,
          <<Dir("import", <<Arg("types", ListV(<<StrV("B")>>))>>)>>, <<IdField>>)>> }
EntityDocuments ==
  {Source(h \o <<a>> \o t) : h \in SchemaHeads, a \in SubjectDefs, t \in OtherDefSeqs}

Documents == ImportDocuments \cup EntityDocuments \cup {Unparsable}

NoSelection == [def |-> 0, field |-> 0, directive |-> 0]
NoNames == [local |-> <<>>, imported |-> <<>>]

(***************************************************************************)
(* Spec: validateSchema, the entry point, run once on a document.          *)
(***************************************************************************)
Init ==
  /\ pc = "start"
  /\ doc \in Documents
  /\ sel = NoSelection
  /\ names = NoNames
  /\ fn = "none"
  /\ out = Ok(<<>>)

ValidateSchema ==
  /\ pc = "start"
  /\ \E readable \in BOOLEAN : out' = validateSchema(readable, doc)
  /\ pc' = "done"
  /\ fn' = "validateSchema"
  /\ UNCHANGED <<doc, sel, names>>

Next == ValidateSchema

Spec == Init /\ [][Next]_vars

(***************************************************************************)
(* SpecRules: one rule of the validator applied to one node of a parsed    *)
(* document.  sel names the node: a definition, a field of it, a           *)
(* directive of that field.                                                *)
(***************************************************************************)
TypeNamePool ==
  { "ID", "String", "BigInt", "A", "B", "E", "Plain", "Node", "Imp", "Alias", "X",
    "address", "uint32", "int32", "u256", "adress" }
ImportBoth ==
  Dir("import",
      <<Arg("types", ListV(<<StrV("Imp"),
                             Obj(<<OField("name", StrV("X")), OField("as", StrV("Alias"))>>)>>)),
        FromName>>)
\* a schema around one field f of the entity A, of type t
TypeDocument(t) ==
  Source(<< Def("ObjectTypeDefinition", RESERVED_TYPE, <<ImportBoth>>, <<>>),
            Def("ObjectTypeDefinition", "A", <<Entity>>,
                <<IdField, Fld("f", t, <<>>, <<>>)>>),
            TargetWithBackref,
            Def("EnumTypeDefinition", "E", <<>>, <<>>),
            Def("ObjectTypeDefinition", "Plain", <<>>, <<IdField>>),
            Def("InterfaceTypeDefinition", "Node", <<>>, <<IdField>>) >>)
TypeCases ==
  {<<TypeDocument(t), [def |-> 2, field |-> f, directive |-> 0]>> :
     t \in TypesUpTo(TypeNamePool, MaxWrap), f \in {0, 2}}

\* the forms of a directive on the derived field
FieldDirectives ==
  { DerivedFrom(StrV("a")), DerivedFrom(StrV("zz")), DerivedFrom(IntV("1")),
    Dir("derivedFrom", <<>>),
    Dir("derivedFrom", <<Arg("field", StrV("a")), Arg("extra", StrV("a"))>>),
    Dir("derivedFrom", <<Arg("from", StrV("a"))>>),
    Dir("unique", <<>>) }
\* the origin type A with the derived field bs, and the type B it points to
DerivedDocument(originDirs, t, directive, targetKind, targetDirs, backref) ==
  Source(<< Def("ObjectTypeDefinition", "A", originDirs,
                <<IdField, Fld("bs", t, <<>>, <<directive>>)>>),
            Def(targetKind, "B", targetDirs,
                <<IdField, Fld("a", backref, <<>>, <<>>)>>) >>)
\* every form of the derived field against a target with or without the
\* back-reference, and every form of the back-reference against a derived field
DerivedCases ==
  LET origins == {<<Entity>>, <<>>}
      targets == { <<"ObjectTypeDefinition", <<Entity>>>>,
                   <<"InterfaceTypeDefinition", <<Entity>>>>,
                   <<"ObjectTypeDefinition", <<>>>> }
      at == [def |-> 1, field |-> 2, directive |-> 1]
  IN {<<DerivedDocument(od, t, dir, tk[1], tk[2], b), at>> :
        od \in origins,
        t \in TypesUpTo({"B"}, MaxWrap) \cup {Named("String"), Named("Zed")},
        dir \in FieldDirectives,
        tk \in targets,
        b \in {NonNull(Named("A")), Named("String")}}
     \cup
     {<<DerivedDocument(od, t, dir, tk[1], tk[2], b), at>> :
        od \in origins,
        t \in {Named("B"), NonNull(ListOf(NonNull(Named("B"))))},
        dir \in {DerivedFrom(StrV("a")), DerivedFrom(StrV("zz"))},
        tk \in targets,
        b \in TypesUpTo({"A", "B"}, MaxWrap)}
ImportCases ==
  {<<d, [def |-> i, field |-> 0, directive |-> 0]>> :
     d \in ImportDocuments, i \in {0, 1}}
RuleCases == TypeCases \cup DerivedCases \cup ImportCases

InitRules ==
  /\ pc = "start"
  /\ \E c \in RuleCases : doc = c[1] /\ sel = c[2]
  /\ names = NoNames
  /\ fn = "none"
  /\ out = Ok(<<>>)

\* the parsed definitions, and the nodes sel names
Defs == parseSchema(doc).val
SelDef == Defs[sel.def]
SelField == SelDef.fields[sel.field]
SelDirective == SelField.directives[sel.directive]

Called(rule, result) ==
  /\ pc = "start"
  /\ out' = result
  /\ pc' = "done"
  /\ fn' = rule
  /\ UNCHANGED <<doc, sel, names>>

CallGatherImportedTypes ==
  /\ sel.def = 0
  /\ Called("gatherImportedTypes", gatherImportedTypes(Defs))

CallValidateTypeDefinition ==
  /\ sel.def > 0 /\ sel.field = 0
  /\ Called("validateTypeDefinition", validateTypeDefinition(Defs, SelDef))

CallValidateListFieldType ==
  /\ sel.field > 0 /\ sel.directive = 0
  /\ Called("validateListFieldType", validateListFieldType(SelDef, SelField))

CallValidateInnerFieldType ==
  /\ sel.field > 0 /\ sel.directive = 0
  /\ Called("validateInnerFieldType", validateInnerFieldType(Defs, SelDef, SelField))

CallValidateEntityFieldDirective ==
  /\ sel.directive > 0
  /\ Called("validateEntityFieldDirective",
            validateEntityFieldDirective(Defs, SelDef, SelField, SelDirective))

NextRules ==
  \/ CallGatherImportedTypes
  \/ CallValidateTypeDefinition
  \/ CallValidateListFieldType
  \/ CallValidateInnerFieldType
  \/ CallValidateEntityFieldDirective

SpecRules == InitRules /\ [][NextRules]_vars

(***************************************************************************)
(* SpecCollisions: the collision pass applied to local and imported names. *)
(***************************************************************************)
NamePool == {"A", "B", "C"}

InitCollisions ==
  /\ pc = "start"
  /\ doc = Source(<<>>)
  /\ sel = NoSelection
  /\ names \in [local : SeqsUpTo(NamePool, MaxNames), imported : SeqsUpTo(NamePool, MaxNames)]
  /\ fn = "none"
  /\ out = Ok(<<>>)

CallValidateNamingCollisions ==
  /\ sel = NoSelection
  /\ Called("validateNamingCollisions",
            validateNamingCollisions(names.local, names.imported))

NextCollisions == CallValidateNamingCollisions

SpecCollisions == InitCollisions /\ [][NextCollisions]_vars

(***************************************************************************)
(* What the claims speak of, stated on the document itself.                *)
(***************************************************************************)
UpstreamFailures == {"Failed to load GraphQL schema", "Invalid GraphQL schema"}
Returned(rule) == pc = "done" /\ fn = rule

\* the named type under all the List/NonNull wrappers of a type expression
RECURSIVE InnermostName(_)
InnermostName(t) == IF t.kind = "NamedType" THEN t.name ELSE InnermostName(t.type)

HasEntityDirective(def) == \E k \in 1..Len(def.directives) : def.directives[k].name = "entity"
\* the @entity definitions (object or interface) of a given name
EntitiesNamed(defs, n) ==
  {d \in 1..Len(defs) :
     /\ defs[d].kind \in {"ObjectTypeDefinition", "InterfaceTypeDefinition"}
     /\ HasEntityDirective(defs[d])
     /\ defs[d].name = n}
FieldsNamed(def, n) == {f \in 1..Len(def.fields) : def.fields[f].name = n}
Min(S) == CHOOSE x \in S : \A y \in S : x <= y

Count(s, P(_)) == Cardinality({i \in 1..Len(s) : P(s[i])})
Occurrences(s, x) == Count(s, LAMBDA y : y = x)

\* a well-formed @derivedFrom: exactly one argument, named field, a string
WellFormedDerivedFrom(directive) ==
  /\ directive.name = "derivedFrom"
  /\ Len(directive.arguments) = 1
  /\ directive.arguments[1].name = "field"
  /\ directive.arguments[1].value.kind = "StringValue"

PlaceholderLoc == [start |-> 1, end |-> 1]

(***************************************************************************)
(* Claims.                                                                 *)
(***************************************************************************)

\* C1: validateSchema throws for nothing but the two upstream failures
\* (unreadable source, unparsable source); whatever a parsed schema
\* holds, it returns its diagnostics.
C1_OnlyUpstreamFailuresThrow ==
  Returned("validateSchema") => out.exn \in {"none"} \cup UpstreamFailures

\* C2: the list check yields exactly one diagnostic recommending [T!] for
\* a field of type [T], exactly one recommending [T!]! for [T]!, and none
\* when the element is NonNull-wrapped or the type is no list.
C2_ListShapeDiagnostics ==
  Returned("validateListFieldType") =>
    LET t == SelField.type
        one(form) ==
          /\ out.exn = "none"
          /\ Len(out.val) = 1
          /\ Includes(out.val[1].message, form)
    IN IF t.kind = "ListType" /\ t.type.kind = "NamedType"
       THEN one("[" \o t.type.name \o "!]")
       ELSE IF /\ t.kind = "NonNullType"
               /\ t.type.kind = "ListType"
               /\ t.type.type.kind = "NamedType"
       THEN one("[" \o t.type.type.name \o "!]!")
       ELSE IF \/ t.kind = "NamedType"
               \/ t.kind = "NonNullType" /\ t.type.kind = "NamedType"
               \/ t.kind = "ListType" /\ t.type.kind = "NonNullType"
               \/ /\ t.kind = "NonNullType"
                  /\ t.type.kind = "ListType"
                  /\ t.type.type.kind = "NonNullType"
       THEN out = Ok(<<>>)
       ELSE TRUE

\* C3: the collision pass reports each name that occurs two or more times
\* in local \o imported exactly once, reports no name that occurs once,
\* and gives every diagnostic the name as entity and the placeholder
\* location {start: 1, end: 1}.
C3_OneCollisionPerName ==
  Returned("validateNamingCollisions") =>
    LET types == names.local \o names.imported
    IN /\ out.exn = "none"
       /\ \A n \in NamePool :
            Count(out.val, LAMBDA e : e.entity = n)
              = IF Occurrences(types, n) >= 2 THEN 1 ELSE 0
       /\ \A i \in 1..Len(out.val) :
            /\ out.val[i].loc = PlaceholderLoc
            /\ out.val[i].entity \in NamePool
            /\ Includes(out.val[i].message, out.val[i].entity)

\* a name repeated three times beside a name that occurs once: one report
C3_Witness ==
  /\ Returned("validateNamingCollisions")
  /\ \E n \in NamePool : Occurrences(names.local \o names.imported, n) >= 3
  /\ \E n \in NamePool : Occurrences(names.local \o names.imported, n) = 1
  /\ Len(out.val) = 1

\* C4: a well-formed @derivedFrom on a field of the type O whose innermost
\* type is an entity T yields one "does not exist on type 'T'" diagnostic
\* when T has no field of the given name; else one back-reference
\* diagnostic exactly when the innermost type of that field is not an
\* @entity definition named O; else none.
C4_DerivedFromDiagnostics ==
  ( /\ Returned("validateEntityFieldDirective")
    /\ WellFormedDerivedFrom(SelDirective)
    /\ EntitiesNamed(Defs, InnermostName(SelField.type)) # {} ) =>
    LET T == Defs[Min(EntitiesNamed(Defs, InnermostName(SelField.type)))]
        given == SelDirective.arguments[1].value.value
        one(piece) ==
          /\ out.exn = "none"
          /\ Len(out.val) = 1
          /\ Includes(out.val[1].message, piece)
    IN IF FieldsNamed(T, given) = {}
       THEN one("' does not exist on type '") /\ Includes(out.val[1].message, T.name)
       ELSE LET back == InnermostName(T.fields[Min(FieldsNamed(T, given))].type)
            IN IF EntitiesNamed(Defs, back) = {} \/ back # SelDef.name
               THEN one("' must have the type ")
               ELSE out = Ok(<<>>)

\* the names a field type may use: the built-in scalars, the local object,
\* enum and interface types, and the names the imports make visible (a
\* string as it is, an aliased object by its `as` value)
ImportDirectivesOf(defs) ==
  UNION {{<<d, k>> : k \in {l \in 1..Len(defs[d].directives) :
                              defs[d].directives[l].name = "import"}} :
         d \in {e \in 1..Len(defs) :
                  /\ defs[e].kind = "ObjectTypeDefinition"
                  /\ defs[e].name = RESERVED_TYPE}}
TypesArgumentOf(directive) ==
  Find(directive.arguments, LAMBDA argument : argument.name = "types")
VisibleNameOf(element) ==
  IF element.kind = "StringValue" THEN element.value
  ELSE IF /\ element.kind = "ObjectValue"
          /\ Has(element.fields, LAMBDA field : field.name = "as")
       THEN First(element.fields, LAMBDA field : field.name = "as").value.value
       ELSE NoValue
VisibleTypeNames(defs) ==
  {BUILTIN_SCALAR_TYPES[i] : i \in 1..Len(BUILTIN_SCALAR_TYPES)}
    \cup {defs[d].name :
            d \in {e \in 1..Len(defs) :
                     defs[e].kind \in {"ObjectTypeDefinition", "EnumTypeDefinition",
                                       "InterfaceTypeDefinition"}}}
    \cup UNION {
           LET types == TypesArgumentOf(defs[p[1]].directives[p[2]])
           IN IF types = Undefined \/ types.value.kind # "ListValue" THEN {}
              ELSE {VisibleNameOf(types.value.values[i]) :
                      i \in 1..Len(types.value.values)} \ {NoValue}
           : p \in ImportDirectivesOf(defs)}

\* C5: the innermost named type of an entity field, under all its
\* List/NonNull wrappers, is looked up among the built-in scalars, the
\* local types and the imported names: a name among them yields no
\* diagnostic, any other name exactly one "Unknown type" diagnostic, which
\* says "Did you mean" exactly when the suggestion table matches the name.
C5_InnerTypeResolved ==
  Returned("validateInnerFieldType") =>
    LET n == InnermostName(SelField.type)
    IN IF n \in VisibleTypeNames(Defs)
       THEN out = Ok(<<>>)
       ELSE /\ out.exn = "none"
            /\ Len(out.val) = 1
            /\ Includes(out.val[1].message, "Unknown type '")
            /\ Includes(out.val[1].message, n)
            /\ Includes(out.val[1].message, " Did you mean '")
                 <=> \E i \in 1..Len(TYPE_SUGGESTIONS) : n \in TYPE_SUGGESTIONS[i].pattern

\* the shape of an element of `types` that the validator is to accept
AcceptedImportShape(element) ==
  \/ element.kind = "StringValue"
  \/ /\ element.kind = "ObjectValue"
     /\ Len(element.fields) = 2
     /\ \A o \in 1..2 :
          /\ element.fields[o].name \in {"name", "as"}
          /\ element.fields[o].value.kind = "StringValue"
\* a diagnostic about one element of `types`
IsImportElementDiagnostic(e) ==
  \/ e.message = ImportShapeMessage
  \/ e.message[1] = "@import field '"
  \/ e.message = <<"@import fields [name, as] must be strings">>

\* C6: for each @import directive on _Schema_, what validateSchema returns
\* holds "argument 'types' must be specified" when `types` is absent, a
\* diagnostic saying so when `types` is no list, at least one diagnostic
\* for each element of the list that has no accepted shape and none for an
\* element that has one.
C6_ImportTypesDiagnosed ==
  (Returned("validateSchema") /\ ~(out.exn \in UpstreamFailures)) =>
    \A p \in ImportDirectivesOf(Defs) :
      LET directive == Defs[p[1]].directives[p[2]]
          types == TypesArgumentOf(directive)
          at == SelectSeq(out.val, LAMBDA e : e.loc = NameLoc(directive.loc))
      IN IF types = Undefined
         THEN Has(at, LAMBDA e : e.message = <<"@import argument 'types' must be specified">>)
         ELSE IF types.value.kind # "ListValue"
         THEN Has(at, LAMBDA e : e.message = <<"@import argument 'types' must be an list">>)
         ELSE LET rejected == Count(types.value.values,
                                    LAMBDA element : ~AcceptedImportShape(element))
                  reported == Count(at, IsImportElementDiagnostic)
              IN /\ out.exn = "none"
                 /\ reported >= rejected
                 /\ rejected = 0 => reported = 0

\* C7: on an object type named _Schema_ every directive that is not
\* @import is rejected with a diagnostic of entity _Schema_ saying that
\* only @import directives are allowed, and the definition gets the "not
\* allowed any fields" diagnostic exactly when it has a field.
C7_ReservedTypeDiagnosed ==
  ( /\ Returned("validateTypeDefinition")
    /\ SelDef.kind = "ObjectTypeDefinition"
    /\ SelDef.name = RESERVED_TYPE ) =>
    /\ out.exn = "none"
    /\ \A k \in 1..Len(SelDef.directives) :
         SelDef.directives[k].name # "import" =>
           Has(out.val, LAMBDA e :
                 /\ e.loc = NameLoc(SelDef.directives[k].loc)
                 /\ e.entity = RESERVED_TYPE
                 /\ Includes(e.message, " directives only allows @import directives"))
    /\ Has(out.val, LAMBDA e :
             Includes(e.message, " type is not allowed any fields by convention"))
         <=> Len(SelDef.fields) >= 1

\* the diagnostics of the rules of one field: of its type, its arguments
\* and its directives
IsCollision(e) == e.loc = PlaceholderLoc
IsPerField(e) == ~IsCollision(e) /\ e.loc.field > 0 /\ e.message[1] = "Field '"
IsPerDirective(e) == IsPerField(e) /\ e.loc.directive > 0

\* C8: in what validateSchema returns, the diagnostics of a definition come
\* before those of every later definition, the per-field diagnostics of
\* an entity are in field order, the directive diagnostics of a field are
\* in directive order, and every collision diagnostic comes after every
\* diagnostic of a definition.
C8_DiagnosticsOrdered ==
  (Returned("validateSchema") /\ out.exn = "none") =>
    \A i, j \in 1..Len(out.val) :
      i < j =>
        LET a == out.val[i]
            b == out.val[j]
        IN /\ IsCollision(a) => IsCollision(b)
           /\ (~IsCollision(a) /\ ~IsCollision(b)) => a.loc.def <= b.loc.def
           /\ (IsPerField(a) /\ IsPerField(b) /\ a.loc.def = b.loc.def)
                => a.loc.field <= b.loc.field
           /\ ( /\ IsPerDirective(a) /\ IsPerDirective(b)
                /\ a.loc.def = b.loc.def /\ a.loc.field = b.loc.field )
                => a.loc.directive <= b.loc.directive

\* diagnostics of three definitions, of two fields of one entity, of two
\* directives of one field, and a collision, all in one result
C8_Witness ==
  /\ Returned("validateSchema")
  /\ out.exn = "none"
  /\ \E i, j, k \in 1..Len(out.val) :
       /\ ~IsCollision(out.val[i]) /\ ~IsCollision(out.val[j]) /\ ~IsCollision(out.val[k])
       /\ out.val[i].loc.def < out.val[j].loc.def
       /\ out.val[j].loc.def < out.val[k].loc.def
  /\ \E i, j \in 1..Len(out.val) :
       /\ IsPerField(out.val[i]) /\ IsPerField(out.val[j])
       /\ out.val[i].loc.def = out.val[j].loc.def
       /\ out.val[i].loc.field < out.val[j].loc.field
  /\ \E i, j \in 1..Len(out.val) :
       /\ IsPerDirective(out.val[i]) /\ IsPerDirective(out.val[j])
       /\ out.val[i].loc.def = out.val[j].loc.def
       /\ out.val[i].loc.field = out.val[j].loc.field
       /\ out.val[i].loc.directive < out.val[j].loc.directive
  /\ \E i \in 1..Len(out.val) : IsCollision(out.val[i])

\* C9: when a well-formed @derivedFrom yields nothing because the target
\* entity of its field cannot be resolved, the diagnostics of that field
\* hold an "Unknown type" diagnostic.
C9_SuppressedTargetIsReported ==
  (Returned("validateSchema") /\ out.exn = "none") =>
    \A d \in 1..Len(Defs) :
      (Defs[d].kind = "ObjectTypeDefinition" /\ Defs[d].name # RESERVED_TYPE) =>
        \A f \in 1..Len(Defs[d].fields) :
          \A k \in 1..Len(Defs[d].fields[f].directives) :
            LET field == Defs[d].fields[f]
                directive == field.directives[k]
            IN ( /\ WellFormedDerivedFrom(directive)
                 /\ EntitiesNamed(Defs, InnermostName(field.type)) = {}
                 /\ ~Has(out.val, LAMBDA e : e.loc = directive.loc) ) =>
               Has(out.val, LAMBDA e :
                     e.loc = field.loc /\ Includes(e.message, "Unknown type '"))

\* C10: over the @import directives of _Schema_ whose `types` is a list,
\* an element that the shape validation passes without a diagnostic makes
\* exactly one name visible, the string itself or the `as` value of the
\* object.
C10_ValidatedImportIsGathered ==
  Returned("gatherImportedTypes") =>
    LET listed ==
          {p \in ImportDirectivesOf(Defs) :
             LET types == TypesArgumentOf(Defs[p[1]].directives[p[2]])
             IN types # Undefined /\ types.value.kind = "ListValue"}
        elements ==
          UNION {{<<p, i>> :
                    i \in 1..Len(TypesArgumentOf(Defs[p[1]].directives[p[2]]).value.values)} :
                 p \in listed}
        element(q) == TypesArgumentOf(Defs[q[1][1]].directives[q[1][2]]).value.values[q[2]]
        passes(q) ==
          validateImportDirectiveType(Defs[q[1][1]], Defs[q[1][1]].directives[q[1][2]],
                                      element(q)) = Ok(<<>>)
    IN (listed = ImportDirectivesOf(Defs) /\ \A q \in elements : passes(q)) =>
       /\ out.exn = "none"
       /\ Len(out.val) = Cardinality(elements)
       /\ \A q \in elements : Includes(out.val, VisibleNameOf(element(q)))

====
